---- MODULE Spec2Model ----
(***************************************************************************)
(* Model of the code-review service (main.py): the three places with       *)
(* logic the specification talks about.                                    *)
(*   SpecSecurity    analyze_security_patterns, one indicator per step     *)
(*   SpecComplexity  calculate_complexity_metrics, one line per step       *)
(*   SpecReview      generate_review_stream (with extract_text_from_result *)
(*                   and parse_sections), one emitted frame per step       *)
(* A Python str is a sequence of one-character strings, so that `in`,      *)
(* lower(), count(), strip(), split() and slicing are computed, not        *)
(* assumed.                                                                *)
(***************************************************************************)
EXTENDS Integers, Sequences, FiniteSets

\* ---- bounds of the model
MaxFrags == 2
MaxLines == 3
MaxHeaders == 3

\* ---- program constant: the stride of range(0, len(content), 50)
ChunkSize == 50

VARIABLES
    sec_code, pattern_type, sec_pc, sec_i, findings, sec_result,
    cx_code, cx_pc, lines, cx_i, nesting_level, max_nesting, nested_loops,
    db_queries, cx_result,
    pc, result, full_analysis, sections, sec_idx, chunk_i, content, frames, exc

secVars == <<sec_code, pattern_type, sec_pc, sec_i, findings, sec_result>>
cxVars == <<cx_code, cx_pc, lines, cx_i, nesting_level, max_nesting,
            nested_loops, db_queries, cx_result>>
revVars == <<pc, result, full_analysis, sections, sec_idx, chunk_i, content,
            frames, exc>>
vars == <<secVars, cxVars, revVars>>

\* ======================================================================
\* Python str operations
\* ======================================================================
UpperLetters == <<"A","B","C","D","E","F","G","H","I","J","K","L","M","N","O","P","Q","R","S","T","U","V","W","X","Y","Z">>
LowerLetters == <<"a","b","c","d","e","f","g","h","i","j","k","l","m","n","o","p","q","r","s","t","u","v","w","x","y","z">>

\* characters str.strip() and the regex class \s remove / match
Whitespace == {" ", "\t", "\n", "\r"}

Min(a, b) == IF a < b THEN a ELSE b
Max(a, b) == IF a > b THEN a ELSE b

LowerChar(c) ==
    IF \E k \in 1..26 : UpperLetters[k] = c
    THEN LowerLetters[CHOOSE k \in 1..26 : UpperLetters[k] = c]
    ELSE c

UpperChar(c) ==
    IF \E k \in 1..26 : LowerLetters[k] = c
    THEN UpperLetters[CHOOSE k \in 1..26 : LowerLetters[k] = c]
    ELSE c

\* s.lower()
Lower(s) == [k \in 1..Len(s) |-> LowerChar(s[k])]

\* s.upper()
Upper(s) == [k \in 1..Len(s) |-> UpperChar(s[k])]

\* sub occurs in s starting at (1-based) position p
StartsAt(s, sub, p) ==
    /\ p >= 1
    /\ p + Len(sub) - 1 <= Len(s)
    /\ \A j \in 1..Len(sub) : s[p + j - 1] = sub[j]

\* sub in s
Contains(s, sub) == \E p \in 1..(Len(s) - Len(sub) + 1) : StartsAt(s, sub, p)

\* s.count(sub) from position p on: non-overlapping occurrences, left to right
RECURSIVE CountFrom(_, _, _)
CountFrom(s, sub, p) ==
    IF p + Len(sub) - 1 > Len(s) THEN 0
    ELSE IF StartsAt(s, sub, p) THEN 1 + CountFrom(s, sub, p + Len(sub))
    ELSE CountFrom(s, sub, p + 1)

Count(s, sub) == CountFrom(s, sub, 1)

\* s.strip()
Strip(s) ==
    LET keep == {k \in 1..Len(s) : s[k] \notin Whitespace}
    IN  IF keep = {} THEN <<>>
        ELSE LET lo == CHOOSE k \in keep : \A m \in keep : k <= m
                 hi == CHOOSE k \in keep : \A m \in keep : k >= m
             IN  SubSeq(s, lo, hi)

\* s.split('\n')
RECURSIVE SplitLines(_, _)
SplitLines(s, cur) ==
    IF s = <<>> THEN <<cur>>
    ELSE IF Head(s) = "\n" THEN <<cur>> \o SplitLines(Tail(s), <<>>)
    ELSE SplitLines(Tail(s), Append(cur, Head(s)))

RECURSIVE Concat(_)
Concat(ss) == IF ss = <<>> THEN <<>> ELSE Head(ss) \o Concat(Tail(ss))

\* sequences over S of length at most n
SeqUpTo(S, n) == UNION {[1..k -> S] : k \in 0..n}

\* ======================================================================
\* analyze_security_patterns(code, pattern_type)
\* ======================================================================
patterns ==
    [p \in {"sql_injection", "xss", "auth", "secrets", "csrf", "input_validation"} |->
        CASE p = "sql_injection" ->
               [indicators |-> <<<<"e","x","e","c","u","t","e","(">>, <<"q","u","e","r","y","(">>, <<"r","a","w","(">>, <<"f","i","l","t","e","r","(">>,
                                 <<"S","E","L","E","C","T">>, <<"I","N","S","E","R","T">>, <<"U","P","D","A","T","E">>, <<"D","E","L","E","T","E">>>>,
                severity |-> "Critical",
                description |-> "Potential SQL injection vulnerability detected"]
          [] p = "xss" ->
               [indicators |-> <<<<"i","n","n","e","r","H","T","M","L">>, <<"d","a","n","g","e","r","o","u","s","l","y","S","e","t","I","n","n","e","r","H","T","M","L">>,
                                 <<"d","o","c","u","m","e","n","t",".","w","r","i","t","e">>, <<"e","v","a","l","(">>>>,
                severity |-> "High",
                description |-> "Potential XSS vulnerability detected"]
          [] p = "auth" ->
               [indicators |-> <<<<"p","a","s","s","w","o","r","d">>, <<"t","o","k","e","n">>, <<"s","e","s","s","i","o","n">>, <<"a","u","t","h">>,
                                 <<"l","o","g","i","n">>, <<"c","r","e","d","e","n","t","i","a","l">>>>,
                severity |-> "High",
                description |-> "Authentication/Authorization pattern detected"]
          [] p = "secrets" ->
               [indicators |-> <<<<"a","p","i","_","k","e","y">>, <<"s","e","c","r","e","t">>, <<"p","a","s","s","w","o","r","d"," ","=">>, <<"t","o","k","e","n"," ","=">>,
                                 <<"A","W","S","_">>, <<"S","E","C","R","E","T","_","K","E","Y">>>>,
                severity |-> "Critical",
                description |-> "Potential hardcoded secrets detected"]
          [] p = "csrf" ->
               [indicators |-> <<<<"P","O","S","T">>, <<"P","U","T">>, <<"D","E","L","E","T","E">>, <<"f","o","r","m">>, <<"c","s","r","f">>>>,
                severity |-> "Medium",
                description |-> "CSRF protection check required"]
          [] p = "input_validation" ->
               [indicators |-> <<<<"i","n","p","u","t","(">>, <<"r","e","q","u","e","s","t",".">>, <<"p","a","r","a","m","s">>, <<"q","u","e","r","y">>, <<"b","o","d","y">>>>,
                severity |-> "High",
                description |-> "Input validation required"]]

\* the inputs: code built from a few fragments, known and unknown pattern types
SecFragments ==
    { <<"S","E","L","E","C","T"," ","*"," ">>, <<"p","a","s","s","w","o","r","d"," ","="," ","x",";">>, <<"e","l",".","i","n","n","e","r","h","t","m","l">>, <<"<","f","o","r","m",">">>,
      <<"r","e","q","u","e","s","t",".","q","u","e","r","y","(">>, <<"P","u","t">> }

SecCodes == {Concat(fs) : fs \in SeqUpTo(SecFragments, MaxFrags)}

PatternTypes == DOMAIN patterns \cup {"SQL_INJECTION", "crypto"}

\* faulty variant: the comparison without lower()
IndicatorFoundCaseSensitive(indicator, code) == Contains(code, indicator)

\* if indicator.lower() in code.lower()
IndicatorFound(indicator, code) == Contains(Lower(code), Lower(indicator))

\* the dict appended to findings
Finding(indicator, pattern) ==
    [indicator |-> indicator, severity |-> pattern.severity,
     description |-> pattern.description, found |-> TRUE]

\* 'severity': pattern['severity'] if findings else 'None'
ResultSeverity(fs, pattern) == IF fs # <<>> THEN pattern.severity ELSE "None"

SecIdle ==
    /\ sec_code = <<>> /\ pattern_type = "" /\ sec_pc = "idle"
    /\ sec_i = 0 /\ findings = <<>> /\ sec_result = [none |-> TRUE]

\* if pattern_type not in patterns: return {'error': ...}; else enter the loop
SecLookup ==
    /\ sec_pc = "start"
    /\ IF pattern_type \notin DOMAIN patterns
       THEN /\ sec_result' = [error |-> <<"Unknown pattern type: ", pattern_type>>]
            /\ sec_pc' = "done"
            /\ UNCHANGED <<sec_i, findings>>
       ELSE /\ sec_pc' = "loop"
            /\ sec_i' = 1
            /\ findings' = <<>>
            /\ UNCHANGED sec_result
    /\ UNCHANGED <<sec_code, pattern_type, cxVars, revVars>>

\* one iteration of: for indicator in pattern['indicators']
SecIndicator ==
    /\ sec_pc = "loop"
    /\ sec_i <= Len(patterns[pattern_type].indicators)
    /\ LET pattern == patterns[pattern_type]
           indicator == pattern.indicators[sec_i]
       IN  findings' = IF IndicatorFound(indicator, sec_code)
                       THEN Append(findings, Finding(indicator, pattern))
                       ELSE findings
    /\ sec_i' = sec_i + 1
    /\ UNCHANGED <<sec_code, pattern_type, sec_pc, sec_result, cxVars, revVars>>

\* the final return
SecReturn ==
    /\ sec_pc = "loop"
    /\ sec_i > Len(patterns[pattern_type].indicators)
    /\ sec_result' = [pattern_type |-> pattern_type,
                      findings |-> findings,
                      total_findings |-> Len(findings),
                      severity |-> ResultSeverity(findings, patterns[pattern_type])]
    /\ sec_pc' = "done"
    /\ UNCHANGED <<sec_code, pattern_type, sec_i, findings, cxVars, revVars>>

\* ======================================================================
\* calculate_complexity_metrics(code)
\* ======================================================================
loops == <<<<"f","o","r"," ">>, <<"w","h","i","l","e"," ">>, <<"f","o","r","e","a","c","h">>>>

\* the inputs: up to MaxLines lines joined by '\n'
CxLineKinds ==
    { <<"f","o","r"," ","i"," ","{">>, <<"W","H","I","L","E"," ","x">>, <<"f","o","r","e","a","c","h","(","a",")">>, <<"}">>, <<"f","r","i","e","n","d">>,
      <<"f","o","r"," ","q","u","e","r","y"," ","l","o","c","k"," ","}">>, <<"s","e","l","e","c","t"," ","s","l","e","e","p"," ","l","o","c","k">> }

RECURSIVE JoinLines(_)
JoinLines(ls) ==
    IF ls = <<>> THEN <<>>
    ELSE IF Len(ls) = 1 THEN ls[1]
    ELSE ls[1] \o <<"\n">> \o JoinLines(Tail(ls))

CxCodes == {JoinLines(ls) : ls \in SeqUpTo(CxLineKinds, MaxLines)}

\* any(loop in line.lower() for loop in loops)
IsLoopLine(line) == \E k \in 1..Len(loops) : Contains(Lower(line), loops[k])

\* '}' in line or 'end' in line.lower()
IsCloseLine(line) == Contains(line, <<"}">>) \/ Contains(Lower(line), <<"e","n","d">>)

\* faulty variant: the decrement without max(0, ...)
LowerLevelNoFloor(level) == level - 1

\* nesting_level = max(0, nesting_level - 1)
LowerLevel(level) == Max(0, level - 1)

\* code.lower().count('query') + code.lower().count('select') + code.lower().count('find(')
DbQueries(code) ==
    Count(Lower(code), <<"q","u","e","r","y">>) + Count(Lower(code), <<"s","e","l","e","c","t">>)
        + Count(Lower(code), <<"f","i","n","d","(">>)

\* code.lower().count('async') + code.lower().count('await') + code.lower().count('promise')
AsyncOperations(code) ==
    Count(Lower(code), <<"a","s","y","n","c">>) + Count(Lower(code), <<"a","w","a","i","t">>)
        + Count(Lower(code), <<"p","r","o","m","i","s","e">>)

\* code.lower().count('sleep') + code.lower().count('thread.') + code.lower().count('lock')
BlockingOperations(code) ==
    Count(Lower(code), <<"s","l","e","e","p">>) + Count(Lower(code), <<"t","h","r","e","a","d",".">>)
        + Count(Lower(code), <<"l","o","c","k">>)

ComplexityScore(nl, db, blocking, mn) ==
    (nl * 3) + (db * 2) + (blocking * 4) + (mn * 2)

ComplexityLevel(score) ==
    IF score > 20 THEN "High" ELSE IF score > 10 THEN "Medium" ELSE "Low"

PerformanceImpact(score) ==
    IF score > 20 THEN "Significant performance issues likely"
    ELSE IF score > 10 THEN "Moderate performance concerns"
    ELSE "Good performance characteristics"

CxIdle ==
    /\ cx_code = <<>> /\ cx_pc = "idle" /\ lines = <<>> /\ cx_i = 0
    /\ nesting_level = 0 /\ max_nesting = 0 /\ nested_loops = 0
    /\ db_queries = 0 /\ cx_result = [none |-> TRUE]

\* lines 106-114: split, counters set to zero
CxStart ==
    /\ cx_pc = "start"
    /\ lines' = SplitLines(cx_code, <<>>)
    /\ nested_loops' = 0
    /\ db_queries' = DbQueries(cx_code)
    /\ nesting_level' = 0
    /\ max_nesting' = 0
    /\ cx_i' = 1
    /\ cx_pc' = "scan"
    /\ UNCHANGED <<cx_code, cx_result, secVars, revVars>>

\* one iteration of: for line in lines
CxScanLine ==
    /\ cx_pc = "scan"
    /\ cx_i <= Len(lines)
    /\ LET line == lines[cx_i]
           isLoop == IsLoopLine(line)
           raised == IF isLoop THEN nesting_level + 1 ELSE nesting_level
       IN  /\ max_nesting' = IF isLoop THEN Max(max_nesting, raised) ELSE max_nesting
           /\ nested_loops' = IF isLoop /\ raised > 1 THEN nested_loops + 1
                              ELSE nested_loops
           /\ nesting_level' = IF IsCloseLine(line) THEN LowerLevel(raised) ELSE raised
    /\ cx_i' = cx_i + 1
    /\ UNCHANGED <<cx_code, cx_pc, lines, db_queries, cx_result, secVars, revVars>>

\* lines 124-154: the remaining counts, the score, its level, and the result
CxReturn ==
    /\ cx_pc = "scan"
    /\ cx_i > Len(lines)
    /\ LET blocking == BlockingOperations(cx_code)
           score == ComplexityScore(nested_loops, db_queries, blocking, max_nesting)
       IN  cx_result' = [total_lines |-> Len(lines),
                         nested_loops |-> nested_loops,
                         database_queries |-> db_queries,
                         async_operations |-> AsyncOperations(cx_code),
                         blocking_operations |-> blocking,
                         max_nesting_level |-> max_nesting,
                         complexity_score |-> score,
                         complexity_level |-> ComplexityLevel(score),
                         performance_impact |-> PerformanceImpact(score)]
    /\ cx_pc' = "done"
    /\ UNCHANGED <<cx_code, lines, cx_i, nesting_level, max_nesting, nested_loops,
                   db_queries, secVars, revVars>>

\* ======================================================================
\* parse_sections(full_response)
\* ======================================================================
\* the alternatives of the capture group of `pattern`, in order
HeaderNames ==
    <<<<"S","E","C","U","R","I","T","Y"," ","A","N","A","L","Y","S","I","S">>, <<"P","E","R","F","O","R","M","A","N","C","E"," ","A","N","A","L","Y","S","I","S">>,
      <<"R","E","A","D","A","B","I","L","I","T","Y"," ","A","N","A","L","Y","S","I","S">>, <<"C","O","M","P","R","E","H","E","N","S","I","V","E"," ","S","U","M","M","A","R","Y">>>>

\* the initial dict: every key maps to ''
EmptySections ==
    [k \in {"security", "performance", "readability", "summary"} |-> <<>>]

\* sub occurs in s at p, compared under re.IGNORECASE
StartsAtIgnoreCase(s, sub, p) ==
    /\ p >= 1
    /\ p + Len(sub) - 1 <= Len(s)
    /\ \A j \in 1..Len(sub) : LowerChar(s[p + j - 1]) = LowerChar(sub[j])

\* length of the run of whitespace that \s+ consumes from position p
WsRun(s, p) ==
    LET stop == {q \in p..Len(s) : s[q] \notin Whitespace}
    IN  IF stop = {} THEN Len(s) - p + 1
        ELSE (CHOOSE q \in stop : \A m \in stop : q <= m) - p

\* Length of the match of `pattern` that starts at p, 0 when there is none.
\* \s+ is greedy and every alternative starts with a letter, so giving
\* whitespace back never produces a match the greedy run does not.
MatchLen(s, p) ==
    IF ~StartsAt(s, <<"#", "#">>, p) THEN 0
    ELSE LET ws == WsRun(s, p + 2)
             hit == {k \in 1..Len(HeaderNames) :
                        StartsAtIgnoreCase(s, HeaderNames[k], p + 2 + ws)}
         IN  IF ws = 0 \/ hit = {} THEN 0
             ELSE 2 + ws + Len(HeaderNames[CHOOSE k \in hit : TRUE])

\* the text the capture group holds for the match at p
Captured(s, p) ==
    LET ws == WsRun(s, p + 2)
    IN  SubSeq(s, p + 2 + ws, p + MatchLen(s, p) - 1)

\* re.split(pattern, s, flags=re.IGNORECASE) from position `from` on:
\* [text, name, text, name, ..., text], matches taken leftmost first
RECURSIVE ReSplit(_, _)
ReSplit(s, from) ==
    LET ms == {p \in from..Len(s) : MatchLen(s, p) > 0}
    IN  IF ms = {} THEN <<SubSeq(s, from, Len(s))>>
        ELSE LET p == CHOOSE q \in ms : \A m \in ms : q <= m
             IN  <<SubSeq(s, from, p - 1), Captured(s, p)>>
                     \o ReSplit(s, p + MatchLen(s, p))

\* faulty variant: a key that already holds text keeps it
AssignSectionKeepFirst(secs, section_name, section_content) ==
    LET key == IF Contains(section_name, <<"S","E","C","U","R","I","T","Y">>) THEN "security"
               ELSE IF Contains(section_name, <<"P","E","R","F","O","R","M","A","N","C","E">>) THEN "performance"
               ELSE IF Contains(section_name, <<"R","E","A","D","A","B","I","L","I","T","Y">>) THEN "readability"
               ELSE "summary"
    IN  IF secs[key] # <<>> THEN secs ELSE [secs EXCEPT ![key] = section_content]

\* the if/elif chain on section_name
AssignSection(secs, section_name, section_content) ==
    IF Contains(section_name, <<"S","E","C","U","R","I","T","Y">>)
    THEN [secs EXCEPT !["security"] = section_content]
    ELSE IF Contains(section_name, <<"P","E","R","F","O","R","M","A","N","C","E">>)
    THEN [secs EXCEPT !["performance"] = section_content]
    ELSE IF Contains(section_name, <<"R","E","A","D","A","B","I","L","I","T","Y">>)
    THEN [secs EXCEPT !["readability"] = section_content]
    ELSE IF Contains(section_name, <<"S","U","M","M","A","R","Y">>) \/ Contains(section_name, <<"C","O","M","P","R","E","H","E","N","S","I","V","E">>)
    THEN [secs EXCEPT !["summary"] = section_content]
    ELSE secs

\* section_content = parts[i + 1].strip()
SectionContent(part) == Strip(part)

\* for i in range(1, len(parts), 2), i counted from 0 as in the source
RECURSIVE ParseLoop(_, _, _)
ParseLoop(parts, i, secs) ==
    IF i >= Len(parts) THEN secs
    ELSE IF i + 1 < Len(parts)
    THEN ParseLoop(parts, i + 2,
                   AssignSection(secs, Upper(Strip(parts[i + 1])),
                                 SectionContent(parts[i + 2])))
    ELSE ParseLoop(parts, i + 2, secs)

parse_sections(full_response) ==
    ParseLoop(ReSplit(full_response, 1), 1, EmptySections)

\* ======================================================================
\* generate_review_stream(code)
\* ======================================================================
section_order == <<"security", "performance", "readability", "summary">>

\* faulty variant: another text for an empty section
NoIssuesOtherText == <<"N","o"," ","i","s","s","u","e","s"," ","f","o","u","n","d",".">>

\* the text emitted for an empty section
NoIssues == <<"N","o"," ","s","p","e","c","i","f","i","c"," ","i","s","s","u","e","s"," ","f","o","u","n","d"," ","i","n"," ","t","h","i","s"," ","c","a","t","e","g","o","r","y",".">>

\* ---- what the external model may answer
\* header lines as they may appear in the text; the last has no whitespace
\* after ## and is therefore no marker
HeaderKinds ==
    <<<<"#","#"," ","S","E","C","U","R","I","T","Y"," ","A","N","A","L","Y","S","I","S">>, <<"#","#"," ","p","e","r","f","o","r","m","a","n","c","e"," ","a","n","a","l","y","s","i","s">>,
      <<"#","#","\t","\n","R","e","a","d","a","b","i","l","i","t","y"," ","A","n","a","l","y","s","i","s">>, <<"#","#"," ","C","O","M","P","R","E","H","E","N","S","I","V","E"," ","S","U","M","M","A","R","Y">>,
      <<"#","#","S","E","C","U","R","I","T","Y"," ","A","N","A","L","Y","S","I","S">>>>

TextAlphabet == <<"a", "b", "c", " ", "d", "e", "f">>

\* a text of n characters whose characters vary with their position
Text(n) == [k \in 1..n |-> TextAlphabet[((k - 1) % Len(TextAlphabet)) + 1]]

\* bodies: empty, whitespace only, short, and around one and two chunks
BodyKinds ==
    << <<>>,
       <<"\n"," ","\n">>,
       <<"\n","a","b"," ","c","\n">>,
       <<"\n">> \o Text(ChunkSize) \o <<"\n", "\n">>,
       <<"\n", " ">> \o Text(ChunkSize + 1) \o <<"\n">>,
       <<"\n">> \o Text(2 * ChunkSize + 1) \o <<" ", "\n">> >>

BodyAt(slot, r) == BodyKinds[((slot + r) % Len(BodyKinds)) + 1]

\* text before the first header, then each header followed by its body
RECURSIVE HeadersAndBodies(_, _, _)
HeadersAndBodies(hs, slot, r) ==
    IF slot > Len(hs) THEN <<>>
    ELSE HeaderKinds[hs[slot]] \o BodyAt(slot, r) \o HeadersAndBodies(hs, slot + 1, r)

\* the answer the system prompt asks for: the four headers in its order
WellFormedResponses ==
    { BodyAt(0, r) \o HeadersAndBodies(<<1, 2, 3, 4>>, 1, r) :
        r \in 0..(Len(BodyKinds) - 1) }

\* any headers in any order, repeated or missing
ArbitraryResponses ==
    { BodyAt(0, r) \o HeadersAndBodies(hs, 1, r) :
        hs \in SeqUpTo(1..Len(HeaderKinds), MaxHeaders), r \in 0..(Len(BodyKinds) - 1) }

Responses == WellFormedResponses \cup ArbitraryResponses

Exceptions ==
    { [name |-> <<"T","i","m","e","o","u","t","E","r","r","o","r">>, msg |-> <<"t","i","m","e","d"," ","o","u","t">>],
      [name |-> <<"V","a","l","u","e","E","r","r","o","r">>, msg |-> <<>>] }

\* what code_review_agent(query) may return: a str, an object whose
\* last_message is a str, an object whose last_message holds a non-str text
\* whose str() raises, or an object without these attributes whose str() raises
AgentResults ==
    {[kind |-> "str", text |-> r] : r \in Responses}
        \cup {[kind |-> "last_message", text |-> r] : r \in WellFormedResponses}
        \cup {[kind |-> k, error |-> e] : k \in {"content_text_object", "unprintable"},
                                         e \in Exceptions}

\* extract_text_from_result: the value returned, or the exception that leaves it
ExtractRaises(res) == res.kind = "unprintable"
extract_text_from_result(res) ==
    CASE res.kind = "str" -> [type |-> "str", value |-> res.text]
      [] res.kind = "last_message" -> [type |-> "str", value |-> res.text]
      [] res.kind = "content_text_object" -> [type |-> "object", error |-> res.error]

\* isinstance(v, str)
IsStr(v) == v.type = "str"

\* faulty variant: the type name alone
ErrorMessageNameOnly(e) == e.name

\* f"{type(e).__name__}: {str(e)}"
ErrorMessage(e) == e.name \o <<":", " ">> \o e.msg

\* faulty variant: the slice starts one character early
ChunkOverlapping(text, i) ==
    SubSeq(text, Max(1, i), Min(i + ChunkSize, Len(text)))

\* faulty variant: the slice ends one character early
ChunkShort(text, i) == SubSeq(text, i + 1, Min(i + ChunkSize - 1, Len(text)))

\* content[i:i+50], i counted from 0
Chunk(text, i) == SubSeq(text, i + 1, Min(i + ChunkSize, Len(text)))

\* the frames, before json.dumps and the "data: ...\n\n" framing
SectionStartFrame(name) == [type |-> "section_start", section |-> name]
ContentFrame(name, chunk) == [type |-> "content", section |-> name, content |-> chunk]
\* faulty variant: the closing frame typed as an opening one
SectionCompleteFrameTypedStart(name) == [type |-> "section_start", section |-> name]
SectionCompleteFrame(name) == [type |-> "section_complete", section |-> name]
\* faulty variant: the final frame names the last section
CompleteFrameWithSection == [type |-> "complete", section |-> "summary"]
CompleteFrame == [type |-> "complete"]
ErrorFrame(e) == [type |-> "error", message |-> ErrorMessage(e)]

\* faulty variant: a section without text is skipped
NextSectionSkipEmpty(k, secs) ==
    IF k + 1 <= Len(section_order) /\ secs[section_order[k + 1]] = <<>>
    THEN k + 2 ELSE k + 1

\* the index the for loop over section_order moves to after index k
NextSection(k, secs) == k + 1

RevIdle ==
    /\ pc = "idle" /\ result = [none |-> TRUE] /\ full_analysis = [type |-> "unset"]
    /\ sections = EmptySections /\ sec_idx = 0 /\ chunk_i = 0
    /\ content = <<>> /\ frames = <<>> /\ exc = [none |-> TRUE]

\* result = code_review_agent(query): returns, or raises
InvokeAgent ==
    /\ pc = "call"
    /\ \/ \E res \in AgentResults : result' = res /\ pc' = "extract" /\ exc' = exc
       \/ \E e \in Exceptions : exc' = e /\ pc' = "except" /\ result' = result
    /\ UNCHANGED <<full_analysis, sections, sec_idx, chunk_i, content, frames,
                   secVars, cxVars>>

\* full_analysis = extract_text_from_result(result)
ExtractText ==
    /\ pc = "extract"
    /\ IF ExtractRaises(result)
       THEN exc' = result.error /\ pc' = "except" /\ full_analysis' = full_analysis
       ELSE full_analysis' = extract_text_from_result(result) /\ pc' = "parse"
            /\ exc' = exc
    /\ UNCHANGED <<result, sections, sec_idx, chunk_i, content, frames, secVars, cxVars>>

\* sections = parse_sections(full_analysis); section_order; the loop is entered
ParseSections ==
    /\ pc = "parse"
    /\ IF IsStr(full_analysis)
       THEN /\ sections' = parse_sections(full_analysis.value)
            /\ sec_idx' = 1
            /\ pc' = "section_start"
            /\ exc' = exc
       ELSE /\ exc' = full_analysis.error
            /\ pc' = "except"
            /\ UNCHANGED <<sections, sec_idx>>
    /\ UNCHANGED <<result, full_analysis, chunk_i, content, frames, secVars, cxVars>>

\* yield section_start; content = sections[section_name].strip(); if content:
EmitSectionStart ==
    /\ pc = "section_start"
    /\ LET name == section_order[sec_idx]
           c == Strip(sections[name])
       IN  /\ frames' = Append(frames, SectionStartFrame(name))
           /\ content' = c
           /\ chunk_i' = 0
           /\ pc' = IF c # <<>> THEN "chunks" ELSE "placeholder"
    /\ UNCHANGED <<result, full_analysis, sections, sec_idx, exc, secVars, cxVars>>

\* one iteration of: for i in range(0, len(content), 50): yield content
EmitChunk ==
    /\ pc = "chunks"
    /\ chunk_i < Len(content)
    /\ frames' = Append(frames, ContentFrame(section_order[sec_idx],
                                             Chunk(content, chunk_i)))
    /\ chunk_i' = chunk_i + ChunkSize
    /\ pc' = IF chunk_i + ChunkSize < Len(content) THEN "chunks" ELSE "section_complete"
    /\ UNCHANGED <<result, full_analysis, sections, sec_idx, content, exc,
                   secVars, cxVars>>

\* else: yield the fixed text
EmitPlaceholder ==
    /\ pc = "placeholder"
    /\ frames' = Append(frames, ContentFrame(section_order[sec_idx], NoIssues))
    /\ pc' = "section_complete"
    /\ UNCHANGED <<result, full_analysis, sections, sec_idx, chunk_i, content, exc,
                   secVars, cxVars>>

\* yield section_complete; the for loop moves on or ends
EmitSectionComplete ==
    /\ pc = "section_complete"
    /\ frames' = Append(frames, SectionCompleteFrame(section_order[sec_idx]))
    /\ sec_idx' = NextSection(sec_idx, sections)
    /\ pc' = IF NextSection(sec_idx, sections) <= Len(section_order)
             THEN "section_start" ELSE "complete"
    /\ UNCHANGED <<result, full_analysis, sections, chunk_i, content, exc,
                   secVars, cxVars>>

\* yield complete
EmitComplete ==
    /\ pc = "complete"
    /\ frames' = Append(frames, CompleteFrame)
    /\ pc' = "done"
    /\ UNCHANGED <<result, full_analysis, sections, sec_idx, chunk_i, content, exc,
                   secVars, cxVars>>

\* except Exception as e: yield error
EmitError ==
    /\ pc = "except"
    /\ frames' = Append(frames, ErrorFrame(exc))
    /\ pc' = "done"
    /\ UNCHANGED <<result, full_analysis, sections, sec_idx, chunk_i, content, exc,
                   secVars, cxVars>>

\* ======================================================================
\* specifications
\* ======================================================================
InitSecurity ==
    /\ sec_code \in SecCodes
    /\ pattern_type \in PatternTypes
    /\ sec_pc = "start" /\ sec_i = 0 /\ findings = <<>> /\ sec_result = [none |-> TRUE]
    /\ CxIdle /\ RevIdle

NextSecurity == SecLookup \/ SecIndicator \/ SecReturn

SpecSecurity == InitSecurity /\ [][NextSecurity]_vars

InitComplexity ==
    /\ cx_code \in CxCodes
    /\ cx_pc = "start" /\ lines = <<>> /\ cx_i = 0
    /\ nesting_level = 0 /\ max_nesting = 0 /\ nested_loops = 0
    /\ db_queries = 0 /\ cx_result = [none |-> TRUE]
    /\ SecIdle /\ RevIdle

NextComplexity == CxStart \/ CxScanLine \/ CxReturn

SpecComplexity == InitComplexity /\ [][NextComplexity]_vars

InitReview ==
    /\ pc = "call" /\ result = [none |-> TRUE] /\ full_analysis = [type |-> "unset"]
    /\ sections = EmptySections /\ sec_idx = 0 /\ chunk_i = 0
    /\ content = <<>> /\ frames = <<>> /\ exc = [none |-> TRUE]
    /\ SecIdle /\ CxIdle

NextReview ==
    \/ InvokeAgent \/ ExtractText \/ ParseSections
    \/ EmitSectionStart \/ EmitChunk \/ EmitPlaceholder \/ EmitSectionComplete
    \/ EmitComplete \/ EmitError

SpecReview == InitReview /\ [][NextReview]_vars

\* the service as a whole: one call of one of the three operations
Init == InitSecurity \/ InitComplexity \/ InitReview

Next == NextSecurity \/ NextComplexity \/ NextReview

Spec == Init /\ [][Next]_vars

\* ======================================================================
\* properties
\* ======================================================================
NoException == [none |-> TRUE]

SectionNames == {"security", "performance", "readability", "summary"}

\* the frames of one section, and of one type, in emission order
FramesOf(name) ==
    SelectSeq(frames, LAMBDA f : "section" \in DOMAIN f /\ f.section = name)
FramesOfType(t) == SelectSeq(frames, LAMBDA f : f.type = t)
ContentOf(name) ==
    SelectSeq(frames, LAMBDA f : f.type = "content" /\ f.section = name)
SectionDone(name) ==
    \E k \in 1..Len(frames) :
        frames[k].type = "section_complete" /\ frames[k].section = name

RECURSIVE ConcatContents(_)
ConcatContents(fs) ==
    IF fs = <<>> THEN <<>> ELSE Head(fs).content \o ConcatContents(Tail(fs))

\* the positions of the recognised markers in the parsed text, and the key
\* each one names
Markers(s) == {p \in 1..Len(s) : MatchLen(s, p) > 0}
MarkerKey(s, p) ==
    LET k == CHOOSE k \in 1..4 :
                 StartsAtIgnoreCase(s, HeaderNames[k], p + 2 + WsRun(s, p + 2))
    IN  section_order[k]
MarkersOf(s, key) == {p \in Markers(s) : MarkerKey(s, p) = key}
Largest(S) == CHOOSE x \in S : \A y \in S : x >= y
Smallest(S) == CHOOSE x \in S : \A y \in S : x <= y

\* the text from the end of the marker at p to the next marker or the end
TextAfterMarker(s, p) ==
    LET later == {q \in Markers(s) : q > p}
        stop == IF later = {} THEN Len(s) ELSE Smallest(later) - 1
    IN  SubSeq(s, p + MatchLen(s, p), stop)

\* C1: in a stream without exception the section_start frames name security,
\* performance, readability, summary in this order, each once: at every
\* moment the section_start frames emitted so far are a prefix of that list,
\* and the finished stream holds all four, whatever the headers in the
\* response were.
C1_FixedSectionOrder ==
    LET order == <<"security", "performance", "readability", "summary">>
        started == FramesOfType("section_start")
        names == [k \in 1..Len(started) |-> started[k].section]
    IN  exc = NoException =>
            /\ Len(names) <= 4
            /\ names = SubSeq(order, 1, Len(names))
            /\ pc = "done" => names = order

\* a finished stream whose response had the performance header before the
\* security header and no summary header
C1_Witness ==
    /\ pc = "done" /\ exc = NoException
    /\ LET s == full_analysis.value
       IN  /\ MarkersOf(s, "security") # {} /\ MarkersOf(s, "performance") # {}
           /\ Smallest(MarkersOf(s, "performance")) < Smallest(MarkersOf(s, "security"))
           /\ MarkersOf(s, "summary") = {}

\* C2: when the model call, extract_text_from_result or parse_sections raises,
\* no frame has been emitted when the handler is entered, the finished stream
\* is exactly one error frame whose message is the type name, ': ' and the
\* message of the exception, and nothing follows it.
C2_SingleErrorFrame ==
    exc # NoException =>
        /\ pc \in {"except", "done"}
        /\ pc = "except" => frames = <<>>
        /\ pc = "done" =>
              /\ frames = <<[type |-> "error",
                             message |-> exc.name \o <<":", " ">> \o exc.msg]>>
              /\ ~ENABLED NextReview

\* the stream that ended after parse_sections raised
C2_Witness ==
    /\ pc = "done" /\ exc # NoException
    /\ "kind" \in DOMAIN result /\ result.kind = "content_text_object"
    /\ Len(frames) = 1

\* a content string is a contiguous slice of a text
IsSliceOf(chunk, text) == Contains(text, chunk)

\* C3 as stated: every content frame carries 1 to 50 characters that are a
\* contiguous slice of the parsed text of the frame's section.
C3_ContentIsSliceOfSection ==
    \A k \in 1..Len(frames) :
        frames[k].type = "content" =>
            /\ Len(frames[k].content) >= 1
            /\ Len(frames[k].content) <= 50
            /\ IsSliceOf(frames[k].content, sections[frames[k].section])

\* C3 amended: every content frame carries 1 to 50 characters; they are a
\* contiguous slice of the parsed text of the frame's section when that text
\* is not empty, and the fixed text 'No specific issues found in this
\* category.' when it is.
C3_ContentIsSliceOrPlaceholder ==
    \A k \in 1..Len(frames) :
        frames[k].type = "content" =>
            LET text == sections[frames[k].section]
            IN  /\ Len(frames[k].content) >= 1
                /\ Len(frames[k].content) <= 50
                /\ text # <<>> => IsSliceOf(frames[k].content, text)
                /\ text = <<>> =>
                      frames[k].content = <<"N","o"," ","s","p","e","c","i","f","i","c"," ","i","s","s","u","e","s"," ","f","o","u","n","d"," ","i","n"," ","t","h","i","s"," ","c","a","t","e","g","o","r","y",".">>

\* a finished stream with a full chunk, a shorter last chunk and the fixed text
C3_Witness ==
    /\ pc = "done"
    /\ \E i, j, k \in 1..Len(frames) :
          /\ frames[i].type = "content" /\ Len(frames[i].content) = 50
          /\ frames[j].type = "content" /\ frames[j].section = frames[i].section
          /\ j > i /\ Len(frames[j].content) < 50
          /\ frames[k].type = "content" /\ sections[frames[k].section] = <<>>

\* C4: every frame has one of the five types; section_start, content and
\* section_complete frames carry one of the four sections; complete and
\* error frames carry no section.
C4_FrameShape ==
    \A k \in 1..Len(frames) :
        LET f == frames[k]
        IN  /\ f.type \in {"section_start", "content", "section_complete",
                           "complete", "error"}
            /\ f.type \in {"section_start", "content", "section_complete"} =>
                  "section" \in DOMAIN f /\ f.section \in SectionNames
            /\ f.type \in {"complete", "error"} => "section" \notin DOMAIN f

\* a finished stream holding section_start, content, section_complete and
\* complete frames
C4_Witness ==
    /\ pc = "done"
    /\ \A t \in {"section_start", "content", "section_complete", "complete"} :
          FramesOfType(t) # <<>>

\* C5: an unknown pattern_type gives a result holding only the error; a known
\* one gives one finding for each indicator of its table row that occurs in
\* the code case-insensitively, in the row's order, total_findings equal to
\* their number, and severity 'None' exactly when there is none and the
\* row's severity otherwise.
C5_SecurityFindings ==
    sec_pc = "done" =>
        IF pattern_type \notin {"sql_injection", "xss", "auth", "secrets", "csrf",
                                "input_validation"}
        THEN sec_result = [error |-> <<"Unknown pattern type: ", pattern_type>>]
        ELSE LET row == patterns[pattern_type]
                 hits == SelectSeq(row.indicators,
                                   LAMBDA ind : Contains(Lower(sec_code), Lower(ind)))
                 r == sec_result
             IN  /\ DOMAIN r = {"pattern_type", "findings", "total_findings", "severity"}
                 /\ r.pattern_type = pattern_type
                 /\ Len(r.findings) = Len(hits)
                 /\ \A k \in 1..Len(hits) :
                       /\ r.findings[k].indicator = hits[k]
                       /\ r.findings[k].severity = row.severity
                       /\ r.findings[k].found
                 /\ r.total_findings = Len(r.findings)
                 /\ (r.severity = "None") <=> (r.findings = <<>>)
                 /\ r.findings # <<>> => r.severity = row.severity

\* a finished xss scan whose only finding is innerHTML, met in another case
C5_Witness ==
    /\ sec_pc = "done" /\ pattern_type = "xss"
    /\ sec_result.total_findings = 1
    /\ sec_result.findings[1].indicator = <<"i","n","n","e","r","H","T","M","L">>
    /\ ~Contains(sec_code, <<"i","n","n","e","r","H","T","M","L">>)
    /\ sec_result.severity = "High"

\* C6: each key holds the stripped text between the end of the last marker
\* naming it and the next marker (or the end of the response); a key no marker
\* names holds the empty string; text before the first marker is in no section.
C6_ParseSections ==
    pc = "section_start" /\ sec_idx = 1 =>
        LET s == full_analysis.value
        IN  \A key \in SectionNames :
                sections[key] =
                    IF MarkersOf(s, key) = {} THEN <<>>
                    ELSE Strip(TextAfterMarker(s, Largest(MarkersOf(s, key))))

\* a parsed response with text before its first marker, a marker that occurs
\* twice with different texts after it, and a key without marker
C6_Witness ==
    /\ pc = "section_start" /\ sec_idx = 1
    /\ LET s == full_analysis.value
       IN  /\ Markers(s) # {} /\ Strip(SubSeq(s, 1, Smallest(Markers(s)) - 1)) # <<>>
           /\ \E key \in SectionNames :
                 /\ Cardinality(MarkersOf(s, key)) = 2
                 /\ Strip(TextAfterMarker(s, Smallest(MarkersOf(s, key)))) # <<>>
                 /\ Strip(TextAfterMarker(s, Smallest(MarkersOf(s, key))))
                        # sections[key]
           /\ \E key \in SectionNames : MarkersOf(s, key) = {}

\* a line holds a loop keyword / a closing token (compared as the code does,
\* the keywords and 'end' in lower case)
HasLoopKeyword(line) ==
    \E kw \in {<<"f","o","r"," ">>, <<"w","h","i","l","e"," ">>, <<"f","o","r","e","a","c","h">>} : Contains(Lower(line), kw)
HasCloser(line) == Contains(line, <<"}">>) \/ Contains(Lower(line), <<"e","n","d">>)

\* the level after the first k lines: raised by a loop line, then lowered by a
\* closing line, never below 0
RECURSIVE LevelAfter(_, _)
LevelAfter(ls, k) ==
    IF k = 0 THEN 0
    ELSE LET up == LevelAfter(ls, k - 1) + (IF HasLoopKeyword(ls[k]) THEN 1 ELSE 0)
         IN  IF HasCloser(ls[k]) THEN (IF up > 0 THEN up - 1 ELSE 0) ELSE up

\* the level a loop line k is reached at
LoopLevel(ls, k) == LevelAfter(ls, k - 1) + 1

\* C7: the nesting level is never negative and follows the lines as stated;
\* max_nesting_level is the greatest level a loop line reached, nested_loops
\* the number of loop lines reached at a level above 1 (so it is positive only
\* if max_nesting_level >= 2); the score is 3*nested_loops +
\* 2*database_queries + 4*blocking_operations + 2*max_nesting_level, and the
\* level is High above 20, Medium above 10, Low otherwise.
C7_ComplexityMetrics ==
    /\ nesting_level >= 0
    /\ nested_loops > 0 => max_nesting >= 2
    /\ cx_pc \in {"scan", "done"} =>
          LET k == cx_i - 1
              loopLines == {j \in 1..k : HasLoopKeyword(lines[j])}
              levels == {LoopLevel(lines, j) : j \in loopLines}
          IN  /\ nesting_level = LevelAfter(lines, k)
              /\ max_nesting = Largest(levels \cup {0})
              /\ nested_loops = Cardinality({j \in loopLines : LoopLevel(lines, j) > 1})
    /\ cx_pc = "done" =>
          LET r == cx_result
          IN  /\ r.max_nesting_level = max_nesting
              /\ r.nested_loops = nested_loops
              /\ r.complexity_score = 3 * r.nested_loops + 2 * r.database_queries
                                        + 4 * r.blocking_operations
                                        + 2 * r.max_nesting_level
              /\ r.complexity_level =
                    IF r.complexity_score > 20 THEN "High"
                    ELSE IF r.complexity_score > 10 THEN "Medium" ELSE "Low"

\* a finished scan with a nested loop, a line that both opens and closes, a
\* closing line met at level 0, and a score between the two thresholds
C7_Witness ==
    /\ cx_pc = "done"
    /\ cx_result.nested_loops > 0
    /\ cx_result.complexity_level = "Medium"
    /\ \E j \in 1..Len(lines) : HasLoopKeyword(lines[j]) /\ HasCloser(lines[j])
    /\ \E j \in 1..Len(lines) :
          /\ HasCloser(lines[j]) /\ ~HasLoopKeyword(lines[j])
          /\ LevelAfter(lines, j - 1) = 0

\* C8: in a stream without exception the frames are well bracketed: a
\* section_start is followed by content of its section, content by content or
\* the section_complete of its section, section_complete by the section_start
\* of another section or by complete; complete comes last, right after the
\* section_complete of summary; the finished stream has four section_start,
\* four section_complete, one complete and no error frame.
C8_WellBracketed ==
    exc = NoException =>
        /\ \A k \in 1..Len(frames) :
              LET f == frames[k]
                  first == (k = 1)
                  last == (k = Len(frames))
              IN  /\ f.type # "error"
                  /\ first => f.type = "section_start"
                  /\ f.type = "section_start" /\ ~last =>
                        /\ frames[k + 1].type = "content"
                        /\ frames[k + 1].section = f.section
                  /\ f.type = "content" /\ ~last =>
                        /\ frames[k + 1].type \in {"content", "section_complete"}
                        /\ frames[k + 1].section = f.section
                  /\ f.type = "section_complete" /\ ~last =>
                        \/ /\ frames[k + 1].type = "section_start"
                           /\ \A j \in 1..k : "section" \in DOMAIN frames[j] =>
                                 frames[j].section # frames[k + 1].section
                        \/ /\ frames[k + 1].type = "complete"
                           /\ f.section = "summary"
                  /\ f.type = "complete" => last
        /\ pc = "done" =>
              /\ Len(FramesOfType("section_start")) = 4
              /\ Len(FramesOfType("section_complete")) = 4
              /\ Len(FramesOfType("complete")) = 1
              /\ frames[Len(frames)].type = "complete"

\* a finished stream in which one section has several content frames and
\* another has one
C8_Witness ==
    /\ pc = "done" /\ exc = NoException
    /\ \E a, b \in SectionNames : Len(ContentOf(a)) >= 3 /\ Len(ContentOf(b)) = 1
    /\ frames[Len(frames)].type = "complete"

\* C9: once a section with non-empty stripped text is complete, its content
\* strings concatenated in emission order are that text, their number is the
\* length of the text divided by 50 rounded up, and all but the last hold
\* exactly 50 characters.
C9_ChunksReassemble ==
    \A name \in SectionNames :
        LET text == Strip(sections[name])
            cs == ContentOf(name)
        IN  SectionDone(name) /\ text # <<>> =>
                /\ ConcatContents(cs) = text
                /\ Len(cs) = (Len(text) + 49) \div 50
                /\ \A k \in 1..(Len(cs) - 1) : Len(cs[k].content) = 50

\* a finished stream with a section of exactly 50 characters, and one of more
\* than 100 that is no multiple of 50
C9_Witness ==
    /\ pc = "done"
    /\ \E a, b \in SectionNames :
          /\ Len(sections[a]) = 50 /\ Len(ContentOf(a)) = 1
          /\ Len(sections[b]) > 100 /\ Len(sections[b]) % 50 # 0
          /\ Len(ContentOf(b)) = 3

\* C10: a section whose parsed text is empty gets, between its section_start
\* and section_complete, exactly one content frame with the fixed text; the
\* stream raises no error for it and still ends with all four sections
\* bracketed and the complete frame.
C10_EmptySectionPlaceholder ==
    /\ \A name \in SectionNames :
          SectionDone(name) /\ Strip(sections[name]) = <<>> =>
              FramesOf(name) =
                  <<[type |-> "section_start", section |-> name],
                    [type |-> "content", section |-> name,
                     content |-> <<"N","o"," ","s","p","e","c","i","f","i","c"," ","i","s","s","u","e","s"," ","f","o","u","n","d"," ","i","n"," ","t","h","i","s"," ","c","a","t","e","g","o","r","y",".">>],
                    [type |-> "section_complete", section |-> name]>>
    /\ sec_idx >= 1 => exc = NoException
    /\ pc = "done" /\ exc = NoException =>
          /\ \A name \in SectionNames : SectionDone(name)
          /\ frames[Len(frames)] = [type |-> "complete"]

\* a finished stream for a response that has no security header, a header
\* followed by whitespace only, and a section with text
C10_Witness ==
    /\ pc = "done" /\ exc = NoException
    /\ LET s == full_analysis.value
       IN  /\ MarkersOf(s, "security") = {}
           /\ \E key \in SectionNames :
                 /\ MarkersOf(s, key) # {}
                 /\ sections[key] = <<>>
                 /\ TextAfterMarker(s, Largest(MarkersOf(s, key))) # <<>>
           /\ \E key \in SectionNames : sections[key] # <<>>
    /\ frames[Len(frames)].type = "complete"

====
